---- MODULE Spec2Model ----
(***************************************************************************)
(* The profile manager of src/modrith_ctk.py (ModrithManager, GameProfile, *)
(* Mod): profile documents on disk, the in-memory store filled at start,   *)
(* and backup / restore through zip archives; its HTTP session and mod     *)
(* search (init_http, http, browse_mods); and, of src/launcher.py, the     *)
(* launcher's configuration file (load_config) and LaunchThread.run.       *)
(*                                                                         *)
(* A path component (a profile name, a file name) is a sequence of         *)
(* non-empty tokens, a "." being a token of its own, so that the suffix    *)
(* arithmetic of pathlib is computed and not assumed:                      *)
(* "my.pack.zip" is <<"my", ".", "pack", ".", "zip">>.                     *)
(* A file's text is the sequence of complete JSON values it holds: the     *)
(* output of json.dumps(v) is <<v>>, and a file that was opened for        *)
(* writing and not yet (or only partly) written is <<>>.                   *)
(***************************************************************************)
EXTENDS Integers, Sequences, FiniteSets, TLC

VARIABLES
    fs,              \* profiles/: directory name -> (file name -> text)
    backups,         \* backups/: archive file name -> archived tree
    manager,         \* "up": a ModrithManager exists; "down": no process
    profiles,        \* self.profiles: profile name -> GameProfile
    active_profile,  \* self.active_profile: <<>> is None
    pc,              \* position inside _save_profile
    saving,          \* <<prof>> while _save_profile(prof) runs, else <<>>
    call,            \* the last call that ended, and what it raised
    scenario,        \* history: progress of backup, delete, restore of one name
    inputs,          \* the profiles the caller hands to _save_profile
    _http,           \* self._http: the session, id 0 is None
    sessions,        \* how many ClientSession objects were created so far
    http_call,       \* the last HTTP call that ended, and how it ended
    request,         \* the query of the last URL sent, as the server reads it
    queries,         \* the texts the caller hands to browse_mods
    config_file,     \* launcher_config.json: what the file holds
    window,          \* "open": a MainWindow exists; "closed": no launcher
    config,          \* self.config of the MainWindow and of its LaunchThread
    controls_disabled,  \* what on_state_change last did to the buttons
    lpc,             \* position of the LaunchThread inside run
    run,             \* the attributes and locals of run: the version ids
    emitted,         \* the signals run has emitted since it was started
    oauth_state,     \* session['oauth_state'] of each browser session
    oauth_call,      \* the last request the OAuth app answered, and how
    time,            \* self.time of the TimerApp
    running,         \* self.running
    label,           \* the text of self.label
    pending          \* how many update_timer callbacks root.after holds

managerVars == <<fs, backups, manager, profiles, active_profile, pc, saving,
                 call, scenario, inputs>>

httpVars == <<_http, sessions, http_call, request, queries>>

launcherVars == <<config_file, window, config, controls_disabled, lpc, run,
                  emitted>>

oauthVars == <<oauth_state, oauth_call>>

timerVars == <<time, running, label, pending>>

vars == <<managerVars, httpVars, launcherVars, oauthVars, timerVars>>

(***************************************************************************)
(* Bounds and input universes                                              *)
(***************************************************************************)
MaxMods == 2

MaxQueryLen == 2

MaxSessions == 3

MaxTime == 20

MaxPending == 4

ModIdSeq == <<"sodium", "lithium", "iris", "fabric-api">>

ModIds == {ModIdSeq[i] : i \in 1..MaxMods}

Names == {<<"Survival">>, <<"my", ".", "pack">>}

PROFILE_JSON == "profile.json"

ZipSuffix == <<".", "zip">>

NoName == <<>>

EmptyTree == [f \in {} |-> <<>>]

EmptyDir == [d \in {} |-> EmptyTree]

EmptyStore == [n \in {} |-> <<>>]

Put(f, k, v) == [x \in DOMAIN f \cup {k} |-> IF x = k THEN v ELSE f[x]]

Drop(f, k) == [x \in DOMAIN f \ {k} |-> f[x]]

SeqsUpTo(S, n) == UNION {[1..k -> S] : k \in 0..n}

Perms(S) == {s \in [1..Cardinality(S) -> S] : \A i, j \in DOMAIN s : i # j => s[i] # s[j]}

Range(s) == {s[i] : i \in DOMAIN s}

\* load_order is exactly a permutation of the keys of mods
IsPermutation(order, keys) ==
    /\ Range(order) = keys
    /\ Len(order) = Cardinality(keys)

(***************************************************************************)
(* Data model                                                              *)
(***************************************************************************)
Mod(id) ==
    [type |-> "Mod", id |-> id, name |-> id, version |-> "0.5",
     files |-> <<id>>, dependencies |-> EmptyTree, checksum |-> id,
     source_url |-> "", enabled |-> TRUE]

GameProfile(name, mods, load_order) ==
    [type |-> "GameProfile", name |-> name, game_id |-> "1.20.1",
     mods |-> mods, load_order |-> load_order,
     config |-> [k \in {"ram"} |-> "2048"],
     resource_packs |-> <<"faithful">>, data_packs |-> <<"vanilla-tweaks">>]

ModsOf(S) == [k \in S |-> Mod(k)]

\* every (mods, load_order) pair within the bounds, permutation or not
AllProfiles ==
    {GameProfile(n, ModsOf(S), lo) :
        n \in Names, S \in SUBSET ModIds, lo \in SeqsUpTo(ModIds, MaxMods)}

\* the profiles of the general specification: two documents for one name
\* (one of them with a load_order that names a mod the mapping lacks) and
\* one for a name with a dot
RepProfiles ==
    {GameProfile(<<"Survival">>, ModsOf({"sodium", "lithium"}), <<"sodium", "lithium">>),
     GameProfile(<<"Survival">>, ModsOf({"sodium"}), <<"sodium", "lithium">>),
     GameProfile(<<"my", ".", "pack">>, ModsOf({"sodium", "lithium"}), <<"sodium", "lithium">>)}

(***************************************************************************)
(* JSON and the profile document                                           *)
(***************************************************************************)
json_dumps(value) == <<value>>

json_valid(text) == Len(text) = 1

json_loads(text) == text[1]

\* vars(v): the attributes of a Mod as a dict
ModVars(v) ==
    [id |-> v.id, name |-> v.name, version |-> v.version, files |-> v.files,
     dependencies |-> v.dependencies, checksum |-> v.checksum,
     source_url |-> v.source_url, enabled |-> v.enabled]

\* Mod(**v)
ModFromDict(v) ==
    [type |-> "Mod", id |-> v.id, name |-> v.name, version |-> v.version,
     files |-> v.files, dependencies |-> v.dependencies,
     checksum |-> v.checksum, source_url |-> v.source_url,
     enabled |-> v.enabled]

\* the dict _save_profile serialises
ProfileToData(prof) ==
    [name |-> prof.name, game_id |-> prof.game_id,
     mods |-> [k \in DOMAIN prof.mods |-> ModVars(prof.mods[k])],
     load_order |-> prof.load_order,
     resource_packs |-> prof.resource_packs,
     data_packs |-> prof.data_packs,
     config |-> prof.config]

\* a loader that reads resource_packs into data_packs as well
GameProfileFromDataPacksMixed(data) ==
    [type |-> "GameProfile", name |-> data.name, game_id |-> data.game_id,
     mods |-> [k \in DOMAIN data.mods |-> ModFromDict(data.mods[k])],
     load_order |-> data.load_order,
     resource_packs |-> data.resource_packs,
     data_packs |-> data.resource_packs,
     config |-> data.config]

\* the GameProfile _load_profiles builds from a parsed document
GameProfileFromData(data) ==
    [type |-> "GameProfile", name |-> data.name, game_id |-> data.game_id,
     mods |-> [k \in DOMAIN data.mods |-> ModFromDict(data.mods[k])],
     load_order |-> data.load_order,
     resource_packs |-> data.resource_packs,
     data_packs |-> data.data_packs,
     config |-> data.config]

(***************************************************************************)
(* pathlib and shutil, as the manager uses them                            *)
(***************************************************************************)
\* the index of the last "." of a name, 0 when it has none
rfind_dot(name) ==
    LET dots == {i \in 1..Len(name) : name[i] = "."}
    IN  IF dots = {} THEN 0 ELSE CHOOSE i \in dots : \A j \in dots : j <= i

\* PurePath.suffix: from the last dot on, unless the dot is first or last
suffix(name) ==
    LET i == rfind_dot(name)
    IN  IF 1 < i /\ i < Len(name) THEN SubSeq(name, i, Len(name)) ELSE <<>>

\* PurePath.with_suffix
with_suffix(name, new) ==
    IF suffix(name) = <<>>
    THEN name \o new
    ELSE SubSeq(name, 1, Len(name) - Len(suffix(name))) \o new

\* PurePath.stem
stem(name) ==
    LET i == rfind_dot(name)
    IN  IF 1 < i /\ i < Len(name) THEN SubSeq(name, 1, i - 1) ELSE name

\* out = base_dir/"backups"/f"{profile_name}.zip"
backup_out(profile_name) == profile_name \o ZipSuffix

\* out.with_suffix(""), the base name given to make_archive
archive_base(profile_name) == with_suffix(backup_out(profile_name), <<>>)

\* a restore directory cut at the first dot of the archive's name
restore_dir_first_part(zip_path) ==
    IF rfind_dot(zip_path) = 0 THEN zip_path
    ELSE SubSeq(zip_path, 1, (CHOOSE i \in 1..Len(zip_path) :
                /\ zip_path[i] = "."
                /\ \A j \in 1..(i - 1) : zip_path[j] # ".") - 1)

\* zip_path.stem, the directory restore_profile unpacks into
restore_dir(zip_path) == stem(zip_path)

\* a make_archive that opens the archive file before it looks at root_dir
make_archive_early_open(archives, base_name, dirs, root_dir) ==
    IF root_dir \notin DOMAIN dirs
    THEN [raised |-> "FileNotFoundError",
          backups |-> Put(archives, base_name \o ZipSuffix, EmptyTree)]
    ELSE [raised |-> "None",
          backups |-> Put(archives, base_name \o ZipSuffix, dirs[root_dir])]

\* shutil.make_archive(base_name, 'zip', root_dir): the archive is written at
\* base_name + ".zip" and replaces one already there; a root_dir that does
\* not exist raises before anything is written
make_archive(archives, base_name, dirs, root_dir) ==
    IF root_dir \notin DOMAIN dirs
    THEN [raised |-> "FileNotFoundError", backups |-> archives]
    ELSE [raised |-> "None",
          backups |-> Put(archives, base_name \o ZipSuffix, dirs[root_dir])]

\* shutil.unpack_archive(filename, extract_dir): every member of the archive
\* is written under extract_dir, over a file of the same name; files of
\* extract_dir that the archive lacks stay, and an archive without members
\* creates nothing
unpack_archive(dirs, archives, filename, extract_dir) ==
    IF filename \notin DOMAIN archives
    THEN [raised |-> "ReadError", fs |-> dirs]
    ELSE LET tree == archives[filename]
             old  == IF extract_dir \in DOMAIN dirs THEN dirs[extract_dir] ELSE EmptyTree
         IN  IF DOMAIN tree = {}
             THEN [raised |-> "None", fs |-> dirs]
             ELSE [raised |-> "None",
                   fs |-> Put(dirs, extract_dir,
                              [f \in DOMAIN old \cup DOMAIN tree |->
                                  IF f \in DOMAIN tree THEN tree[f] ELSE old[f]])]

(***************************************************************************)
(* _load_profiles                                                          *)
(***************************************************************************)
\* the loop of _load_profiles over the folders in the order iterdir gives
\* them; an exception leaves the loop
RECURSIVE load_folders(_, _, _)

\* a loop that reads profile.json without asking whether it exists
load_folders_unguarded(dirs, order, store) ==
    IF order = <<>>
    THEN [raised |-> "None", profiles |-> store]
    ELSE LET tree == dirs[Head(order)]
         IN  IF PROFILE_JSON \notin DOMAIN tree
             THEN [raised |-> "FileNotFoundError", profiles |-> store]
             ELSE IF ~json_valid(tree[PROFILE_JSON])
                  THEN [raised |-> "JSONDecodeError", profiles |-> store]
                  ELSE LET gp == GameProfileFromData(json_loads(tree[PROFILE_JSON]))
                       IN  load_folders(dirs, Tail(order), Put(store, gp.name, gp))

load_folders(dirs, order, store) ==
    IF order = <<>>
    THEN [raised |-> "None", profiles |-> store]
    ELSE LET tree == dirs[Head(order)]
         IN  IF PROFILE_JSON \notin DOMAIN tree
             THEN load_folders(dirs, Tail(order), store)
             ELSE IF ~json_valid(tree[PROFILE_JSON])
                  THEN [raised |-> "JSONDecodeError", profiles |-> store]
                  ELSE LET gp == GameProfileFromData(json_loads(tree[PROFILE_JSON]))
                       IN  load_folders(dirs, Tail(order), Put(store, gp.name, gp))

Call(op, arg, raised) == [op |-> op, arg |-> arg, raised |-> raised]

NoScenario == [stage |-> 0, name |-> NoName, tree |-> EmptyTree]

(***************************************************************************)
(* The HTTP session and the search URL                                     *)
(***************************************************************************)
NoSession == [id |-> 0, closed |-> FALSE]

\* an init_http that makes a new session on every call
init_http_session_fresh(h, made) == [id |-> made + 1, closed |-> FALSE]

\* init_http: self._http after the call, given self._http before it and the
\* number of sessions made so far
init_http_session(h, made) ==
    IF h.id = 0 \/ h.closed THEN [id |-> made + 1, closed |-> FALSE] ELSE h

\* the http property: what reading it raises
http_property(h) == IF h.id = 0 THEN "RuntimeError" ELSE "None"

\* the text of a query is a sequence of tokens; the characters that have a
\* meaning in a URL are tokens of their own
QueryTokens == {"sodium", "limit", "100", "&", "=", "#", " "}

Queries == SeqsUpTo(QueryTokens, MaxQueryLen)

SEARCH_URL == "https://api.modrinth.com/v2/search"

\* f"https://api.modrinth.com/v2/search?query={query}&limit=10"
search_url(query) ==
    <<SEARCH_URL, "?", "query", "=">> \o query \o <<"&", "limit", "=", "10">>

\* what the session does to a URL given as a string: characters that cannot
\* stand in a URL are percent-encoded, the delimiters are kept
requote(url) == [i \in DOMAIN url |-> IF url[i] = " " THEN "%20" ELSE url[i]]

\* percent-decoding, as the receiver of the URL does it
unquote(text) == [i \in DOMAIN text |-> IF text[i] = "%20" THEN " " ELSE text[i]]

first_index(text, tok) ==
    LET at == {i \in DOMAIN text : text[i] = tok}
    IN  IF at = {} THEN 0 ELSE CHOOSE i \in at : \A j \in at : i <= j

before(text, tok) ==
    IF first_index(text, tok) = 0 THEN text
    ELSE SubSeq(text, 1, first_index(text, tok) - 1)

after(text, tok) ==
    IF first_index(text, tok) = 0 THEN <<>>
    ELSE SubSeq(text, first_index(text, tok) + 1, Len(text))

RECURSIVE split(_, _)
split(text, tok) ==
    IF first_index(text, tok) = 0 THEN <<text>>
    ELSE <<before(text, tok)>> \o split(after(text, tok), tok)

\* the query component of a URL: after the first "?", up to the first "#"
url_query(url) == after(before(url, "#"), "?")

url_fragment(url) == after(url, "#")

\* the parameters of a query component: the fields between "&", each cut at
\* its first "=" into a name and a value, both decoded
query_params(q) ==
    LET fields == SelectSeq(split(q, "&"), LAMBDA f : f # <<>>)
    IN  [i \in DOMAIN fields |->
            [name  |-> unquote(before(fields[i], "=")),
             value |-> unquote(after(fields[i], "="))]]

\* the request line of self.http.get(url), as its receiver reads it
sent_request(url) ==
    [params   |-> query_params(url_query(requote(url))),
     fragment |-> url_fragment(requote(url))]

NoRequest == [params |-> <<>>, fragment |-> <<>>]

\* what the remote end answers: a status and a body, or nothing at all
Statuses == {200, 304, 404, 503}

Bodies == {<<>>, <<[hits |-> <<"sodium">>]>>}

NoResponse == [kind |-> "none", status |-> 0, body |-> <<>>]

Responses ==
    [kind : {"response"}, status : Statuses, body : Bodies]
    \cup {[kind |-> "transport_error", status |-> 0, body |-> <<>>]}

\* a raise_for_status that accepts every status
raise_for_status_lenient(status) == "None"

\* ClientResponse.raise_for_status: raises for a status of 400 and above
raise_for_status(status) ==
    IF status >= 400 THEN "ClientResponseError" ELSE "None"

HttpCall(op, query, response, raised, status, result, used) ==
    [op |-> op, query |-> query, response |-> response, raised |-> raised,
     status |-> status, result |-> result, used |-> used]

(***************************************************************************)
(* The manager's operations                                                *)
(***************************************************************************)
IdleManager == manager = "up" /\ pc = "idle"

\* ModrithManager(): the directories are made, then _load_profiles runs over
\* the folders in some order; an exception leaves the caller without a manager
__init__ ==
    /\ manager = "down"
    /\ \E order \in Perms(DOMAIN fs) :
          LET r == load_folders(fs, order, EmptyStore)
          IN  /\ manager' = IF r.raised = "None" THEN "up" ELSE "down"
              /\ profiles' = IF r.raised = "None" THEN r.profiles ELSE EmptyStore
              /\ call' = Call("__init__", NoName, r.raised)
    /\ active_profile' = <<>>
    /\ UNCHANGED <<fs, backups, pc, saving, scenario, inputs>>
    /\ _http' = NoSession
    /\ UNCHANGED <<sessions, http_call, request, queries, launcherVars,
                   oauthVars, timerVars>>

\* _save_profile, first step: d.mkdir(parents=True, exist_ok=True)
save_profile_mkdir(prof) ==
    /\ IdleManager
    /\ fs' = IF prof.name \in DOMAIN fs THEN fs ELSE Put(fs, prof.name, EmptyTree)
    /\ pc' = "mkdir"
    /\ saving' = <<prof>>
    /\ scenario' = NoScenario
    /\ UNCHANGED <<backups, manager, profiles, active_profile, call, inputs>>
    /\ UNCHANGED <<httpVars, launcherVars, oauthVars, timerVars>>

\* _save_profile, second step: write_text opens profile.json for writing,
\* which creates it or empties it
save_profile_open ==
    /\ manager = "up"
    /\ pc = "mkdir"
    /\ LET d == saving[1].name
       IN  fs' = Put(fs, d, Put(fs[d], PROFILE_JSON, <<>>))
    /\ pc' = "open"
    /\ UNCHANGED <<backups, manager, profiles, active_profile, saving, call,
                   scenario, inputs>>
    /\ UNCHANGED <<httpVars, launcherVars, oauthVars, timerVars>>

\* _save_profile, last step: the text is written and the file closed
save_profile_write ==
    /\ manager = "up"
    /\ pc = "open"
    /\ LET d == saving[1].name
       IN  /\ fs' = Put(fs, d, Put(fs[d], PROFILE_JSON,
                                   json_dumps(ProfileToData(saving[1]))))
           /\ call' = Call("_save_profile", d, "None")
    /\ pc' = "idle"
    /\ saving' = <<>>
    /\ UNCHANGED <<backups, manager, profiles, active_profile, scenario, inputs>>
    /\ UNCHANGED <<httpVars, launcherVars, oauthVars, timerVars>>

\* a backup that moves the profile directory into the archive
backup_profile_moving(profile_name) ==
    /\ IdleManager
    /\ LET r == make_archive(backups, archive_base(profile_name), fs, profile_name)
       IN  /\ backups' = r.backups
           /\ fs' = IF r.raised = "None" THEN Drop(fs, profile_name) ELSE fs
           /\ call' = Call("backup_profile", profile_name, r.raised)
           /\ scenario' = NoScenario
    /\ UNCHANGED <<manager, profiles, active_profile, pc, saving, inputs>>
    /\ UNCHANGED <<httpVars, launcherVars, oauthVars, timerVars>>

backup_profile(profile_name) ==
    /\ IdleManager
    /\ LET r == make_archive(backups, archive_base(profile_name), fs, profile_name)
       IN  /\ backups' = r.backups
           /\ call' = Call("backup_profile", profile_name, r.raised)
           /\ scenario' = IF r.raised = "None"
                          THEN [stage |-> 1, name |-> profile_name,
                                tree |-> fs[profile_name]]
                          ELSE NoScenario
    /\ UNCHANGED <<fs, manager, profiles, active_profile, pc, saving, inputs>>
    /\ UNCHANGED <<httpVars, launcherVars, oauthVars, timerVars>>

\* a restore that also loads the restored document into the store
restore_profile_registering(zip_path) ==
    /\ IdleManager
    /\ LET r    == unpack_archive(fs, backups, zip_path, restore_dir(zip_path))
           d    == restore_dir(zip_path)
           read == /\ r.raised = "None"
                   /\ d \in DOMAIN r.fs
                   /\ PROFILE_JSON \in DOMAIN r.fs[d]
                   /\ json_valid(r.fs[d][PROFILE_JSON])
       IN  /\ fs' = r.fs
           /\ call' = Call("restore_profile", zip_path, r.raised)
           /\ scenario' = NoScenario
           /\ profiles' = IF read
                          THEN LET gp == GameProfileFromData(
                                             json_loads(r.fs[d][PROFILE_JSON]))
                               IN  Put(profiles, gp.name, gp)
                          ELSE profiles
    /\ UNCHANGED <<backups, manager, active_profile, pc, saving, inputs>>
    /\ UNCHANGED <<httpVars, launcherVars, oauthVars, timerVars>>

restore_profile(zip_path) ==
    /\ IdleManager
    /\ LET r == unpack_archive(fs, backups, zip_path, restore_dir(zip_path))
       IN  /\ fs' = r.fs
           /\ call' = Call("restore_profile", zip_path, r.raised)
           /\ scenario' = IF /\ r.raised = "None"
                             /\ scenario.stage = 2
                             /\ zip_path = backup_out(scenario.name)
                          THEN [scenario EXCEPT !.stage = 3]
                          ELSE NoScenario
    /\ UNCHANGED <<backups, manager, profiles, active_profile, pc, saving, inputs>>
    /\ UNCHANGED <<httpVars, launcherVars, oauthVars, timerVars>>

\* the profile directory is removed (by the user, outside the manager)
delete_profile_dir(name) ==
    /\ pc = "idle"
    /\ name \in DOMAIN fs
    /\ fs' = Drop(fs, name)
    /\ call' = Call("rmtree", name, "None")
    /\ scenario' = IF scenario.stage = 1 /\ scenario.name = name
                   THEN [scenario EXCEPT !.stage = 2]
                   ELSE NoScenario
    /\ UNCHANGED <<backups, manager, profiles, active_profile, pc, saving, inputs>>
    /\ UNCHANGED <<httpVars, launcherVars, oauthVars, timerVars>>

\* an archive file is copied to another file name (by the user, outside the
\* manager): restore_profile takes any zip_path, whatever the file is called
copy_archive(src, dst) ==
    /\ pc = "idle"
    /\ src \in DOMAIN backups
    /\ dst # src
    /\ backups' = Put(backups, dst, backups[src])
    /\ call' = Call("copy", dst, "None")
    /\ scenario' = NoScenario
    /\ UNCHANGED <<fs, manager, profiles, active_profile, pc, saving, inputs>>
    /\ UNCHANGED <<httpVars, launcherVars, oauthVars, timerVars>>

\* the process ends, at any point: by exit, by a kill or by a power cut
process_stop ==
    /\ manager = "up"
    /\ manager' = "down"
    /\ profiles' = EmptyStore
    /\ active_profile' = <<>>
    /\ pc' = "idle"
    /\ saving' = <<>>
    /\ call' = Call("exit", NoName, "None")
    /\ UNCHANGED <<fs, backups, scenario, inputs>>
    /\ _http' = NoSession
    /\ UNCHANGED <<sessions, http_call, request, queries, launcherVars,
                   oauthVars, timerVars>>

\* await manager.init_http()
init_http ==
    /\ IdleManager
    /\ LET h == init_http_session(_http, sessions)
       IN  /\ h.id <= MaxSessions
           /\ _http' = h
           /\ sessions' = IF h.id > sessions THEN h.id ELSE sessions
           /\ http_call' = HttpCall("init_http", <<>>, NoResponse, "None", 0,
                                    <<>>, h)
    /\ UNCHANGED <<request, queries, managerVars, launcherVars,
                   oauthVars, timerVars>>

\* manager.http, read by a caller
http ==
    /\ IdleManager
    /\ http_call' = HttpCall("http", <<>>, NoResponse, http_property(_http), 0,
                             <<>>, _http)
    /\ UNCHANGED <<_http, sessions, request, queries, managerVars, launcherVars,
                   oauthVars, timerVars>>

\* await manager.browse_mods(query), answered by response: init_http, the http
\* property, the GET, raise_for_status and the parse of the body
browse_mods(query, response) ==
    /\ IdleManager
    /\ LET url == search_url(query)
           h   == init_http_session(_http, sessions)
           sent == http_property(h) = "None" /\ ~h.closed
           raised ==
               IF http_property(h) # "None" THEN http_property(h)
               ELSE IF h.closed THEN "RuntimeError"
               ELSE IF response.kind = "transport_error"
                    THEN "ClientConnectionError"
               ELSE IF raise_for_status(response.status) # "None"
                    THEN raise_for_status(response.status)
               ELSE IF ~json_valid(response.body) THEN "JSONDecodeError"
               ELSE "None"
       IN  /\ h.id <= MaxSessions
           /\ _http' = h
           /\ sessions' = IF h.id > sessions THEN h.id ELSE sessions
           /\ request' = IF sent THEN sent_request(url) ELSE request
           /\ http_call' =
                 HttpCall("browse_mods", query,
                          IF sent THEN response ELSE NoResponse,
                          raised,
                          IF raised = "ClientResponseError"
                          THEN response.status ELSE 0,
                          IF raised = "None"
                          THEN <<json_loads(response.body)>> ELSE <<>>,
                          h)
    /\ UNCHANGED <<queries, managerVars, launcherVars, oauthVars, timerVars>>

\* await manager._http.close(), as the entry point does after the main loop
session_close ==
    /\ IdleManager
    /\ _http.id # 0
    /\ ~_http.closed
    /\ _http' = [_http EXCEPT !.closed = TRUE]
    /\ http_call' = HttpCall("close", <<>>, NoResponse, "None", 0, <<>>, _http')
    /\ UNCHANGED <<sessions, request, queries, managerVars, launcherVars,
                   oauthVars, timerVars>>

(***************************************************************************)
(* The launcher's configuration (src/launcher.py)                          *)
(*                                                                         *)
(* A JSON value is a type tag and a text, the text a sequence of tokens;   *)
(* a dict is a function from keys to such values.                          *)
(***************************************************************************)
JStr(text) == [t |-> "str", v |-> text]

JNum(text) == [t |-> "num", v |-> text]

JNull == [t |-> "null", v |-> <<>>]

JList == [t |-> "list", v |-> <<>>]

NoDict == [k \in {} |-> JNull]

\* get_minecraft_directory()
MINECRAFT_DIRECTORY == <<".minecraft">>

\* default_config of load_config
default_config ==
    [minecraft_directory |-> JStr(MINECRAFT_DIRECTORY),
     ram                 |-> JNum(<<"2048">>),
     mod_loader          |-> JStr(<<"None">>),
     mods_folder         |-> JStr(<<>>),
     extra_jvm_args      |-> JStr(<<>>),
     username            |-> JStr(<<>>),
     server              |-> JStr(<<>>),
     accounts            |-> JList]

\* what launcher_config.json can be: absent; unreadable or not JSON; a JSON
\* object; a JSON array, whose elements are two-element sequences (pair, a key
\* and a value) or anything else; another JSON value (a number, null, true)
File(kind, obj, arr) == [kind |-> kind, obj |-> obj, arr |-> arr]

Pair(key, value) == [pair |-> TRUE, key |-> key, value |-> value]

NotAPair == [pair |-> FALSE, key |-> "", value |-> JNull]

ObjectFile(obj) == File("object", obj, <<>>)

ArrayFile(arr) == File("array", NoDict, arr)

Loaders == {<<"None">>, <<"Fabric">>, <<"Forge">>}

ConfigObjects ==
    {[mod_loader |-> JStr(ml), mods_folder |-> mf, extra_jvm_args |-> ej] :
        ml \in Loaders,
        mf \in {JStr(<<>>), JStr(<<"mymods">>), JNull},
        ej \in {JStr(<<>>), JStr(<<"-Xss1M">>)}}
    \cup {[ram |-> JNum(<<"4096">>)],
          [extra_jvm_args |-> JNum(<<"1">>), theme |-> JStr(<<"dark">>)],
          NoDict}

ConfigArrays ==
    {<<>>,
     <<NotAPair>>,
     <<Pair("ram", JNum(<<"512">>))>>,
     <<Pair("ram", JNum(<<"512">>)), NotAPair, Pair("server", JStr(<<"host">>))>>,
     <<Pair("a", JStr(<<"b">>))>>}

ConfigFiles ==
    {File("absent", NoDict, <<>>), File("unreadable", NoDict, <<>>),
     File("scalar", NoDict, <<>>)}
    \cup {ObjectFile(o) : o \in ConfigObjects}
    \cup {ArrayFile(a) : a \in ConfigArrays}

\* dict.update with a dict: every key of the other dict is set
update_dict(d, other) ==
    [k \in DOMAIN d \cup DOMAIN other |-> IF k \in DOMAIN other THEN other[k] ELSE d[k]]

\* dict.update with a sequence: the elements are taken in order as key and
\* value; the first that is no pair raises, the keys set before it stay set
RECURSIVE update_seq(_, _)
update_seq(d, elements) ==
    IF elements = <<>> THEN [raised |-> "None", dict |-> d]
    ELSE IF ~Head(elements).pair THEN [raised |-> "TypeError", dict |-> d]
    ELSE update_seq(Put(d, Head(elements).key, Head(elements).value),
                    Tail(elements))

\* default_config.update(data), data being what json.load gave
update(d, file) ==
    IF file.kind = "object" THEN [raised |-> "None", dict |-> update_dict(d, file.obj)]
    ELSE IF file.kind = "array" THEN update_seq(d, file.arr)
    ELSE [raised |-> "TypeError", dict |-> d]

\* load_config(): an exception of open, json.load or update is swallowed
load_config(file) ==
    IF file.kind = "absent" THEN [raised |-> "None", config |-> default_config]
    ELSE IF file.kind = "unreadable"
         THEN [raised |-> "None", config |-> default_config]
    ELSE [raised |-> "None", config |-> update(default_config, file).dict]

\* save_config(config_data): json.dump of the dict
save_config(d) == ObjectFile(d)

(***************************************************************************)
(* MainWindow and LaunchThread (src/launcher.py)                           *)
(***************************************************************************)
\* str.strip(): the white space at both ends is dropped
RECURSIVE strip(_)
strip(text) ==
    IF text = <<>> THEN text
    ELSE IF Head(text) = " " THEN strip(Tail(text))
    ELSE IF text[Len(text)] = " " THEN strip(SubSeq(text, 1, Len(text) - 1))
    ELSE text

\* int(port_str): raises ValueError unless the text is a decimal number
DecimalTokens == {"25565"}

int_raises(text) == ~(Len(text) = 1 /\ text[1] \in DecimalTokens)

\* the versions of the combo box, and what the user types as server
Versions == {<<"1.20.1">>, <<"1.19.4">>}

Servers == {<<>>, <<"host">>, <<"host", ":", "25565", " ">>, <<"host", ":", "abc">>}

\* generate_username()[0]
GENERATED_USERNAME == <<"Player">>

\* the version a loader installation results in: the loader's own version of
\* the game version it was given
FabricId(version) == <<"fabric-loader">> \o version

ForgeId(version) == version \o <<"forge">>

Fabric == JStr(<<"Fabric">>)

Forge == JStr(<<"Forge">>)

Emit(signal, arg) == [signal |-> signal, arg |-> arg]

NoRun ==
    [version_id |-> <<>>, final_version_id |-> <<>>, installed |-> <<>>,
     install_failed |-> FALSE, built |-> <<>>]

\* MainWindow(): self.config = load_config(), the thread is made and its
\* signals are connected
MainWindow_init ==
    /\ window = "closed"
    /\ config' = load_config(config_file).config
    /\ window' = "open"
    /\ UNCHANGED <<config_file, controls_disabled, lpc, run, emitted>>
    /\ UNCHANGED <<managerVars, httpVars, oauthVars, timerVars>>

\* play_game with a version selected: the line edits go into the config, the
\* config is saved, the thread gets the version and is started
play_game(version_id, server_text) ==
    /\ window = "open"
    /\ ~controls_disabled
    /\ lpc = "idle"
    /\ config' = Put(Put(config, "username", JStr(strip(config.username.v))),
                     "server", JStr(strip(server_text)))
    /\ config_file' = save_config(config')
    /\ run' = [NoRun EXCEPT !.version_id = version_id]
    /\ emitted' = <<>>
    /\ lpc' = "start"
    /\ UNCHANGED <<window, controls_disabled>>
    /\ UNCHANGED <<managerVars, httpVars, oauthVars, timerVars>>

\* run, up to the loader installation: state_signal(True), which
\* on_state_change answers by disabling the buttons; the username
run_begin ==
    /\ lpc = "start"
    /\ emitted' = emitted \o <<Emit("state", "True")>>
    /\ controls_disabled' = TRUE
    /\ config' = IF strip(config.username.v) = <<>>
                 THEN Put(config, "username", JStr(GENERATED_USERNAME))
                 ELSE config
    /\ run' = [run EXCEPT !.final_version_id = run.version_id]
    /\ lpc' = "install"
    /\ UNCHANGED <<config_file, window>>
    /\ UNCHANGED <<managerVars, httpVars, oauthVars, timerVars>>

\* run, step 2: install_fabric or install_forge_version, which ends well (ok)
\* or raises
run_install(ok) ==
    /\ lpc = "install"
    /\ IF config.mod_loader \notin {Fabric, Forge}
       THEN /\ ok
            /\ lpc' = "mods"
            /\ UNCHANGED <<run, emitted, controls_disabled>>
       ELSE IF ~ok
       THEN /\ emitted' = emitted \o <<Emit("error", "Failed to install"),
                                       Emit("state", "False")>>
            /\ controls_disabled' = FALSE
            /\ run' = [run EXCEPT !.install_failed = TRUE]
            /\ lpc' = "idle"
       ELSE /\ run' = IF config.mod_loader = Fabric
                      THEN [run EXCEPT
                               !.final_version_id = FabricId(run.final_version_id),
                               !.installed = <<FabricId(run.final_version_id)>>]
                      ELSE [run EXCEPT
                               !.installed = <<ForgeId(run.final_version_id)>>]
            /\ lpc' = "mods"
            /\ UNCHANGED <<emitted, controls_disabled>>
    /\ UNCHANGED <<config_file, window, config>>
    /\ UNCHANGED <<managerVars, httpVars, oauthVars, timerVars>>

\* run, step 3: mods_folder is stripped, outside any try; the copy of the
\* mods, which ends well (ok) or raises, is not fatal
run_mods(ok) ==
    /\ lpc = "mods"
    /\ IF config.mods_folder.t # "str"
       THEN /\ ok
            /\ lpc' = "died"
            /\ UNCHANGED emitted
       ELSE /\ lpc' = "options"
            /\ IF /\ strip(config.mods_folder.v) # <<>>
                  /\ config.mod_loader \in {Fabric, Forge}
               THEN emitted' = IF ok THEN emitted
                               ELSE emitted \o <<Emit("error", "Failed to copy mods")>>
               ELSE ok /\ UNCHANGED emitted
    /\ UNCHANGED <<config_file, window, config, controls_disabled, run>>
    /\ UNCHANGED <<managerVars, httpVars, oauthVars, timerVars>>

\* run, step 4: extra_jvm_args and server are stripped, outside any try; the
\* port of a server "host:port" is read with int
run_options ==
    /\ lpc = "options"
    /\ LET server == strip(config.server.v)
       IN  IF config.extra_jvm_args.t # "str"
           THEN /\ lpc' = "died"
                /\ UNCHANGED <<emitted, controls_disabled>>
           ELSE IF first_index(server, ":") # 0 /\ int_raises(after(server, ":"))
           THEN /\ emitted' = emitted \o <<Emit("error", "Invalid port"),
                                           Emit("state", "False")>>
                /\ controls_disabled' = FALSE
                /\ lpc' = "idle"
           ELSE /\ lpc' = "command"
                /\ UNCHANGED <<emitted, controls_disabled>>
    /\ UNCHANGED <<config_file, window, config, run>>
    /\ UNCHANGED <<managerVars, httpVars, oauthVars, timerVars>>

BuilderOutcomes == {"None", "VersionNotFound", "Exception"}

\* run, step 5: get_minecraft_command(version=final_version_id, ...), which
\* returns a command or raises
run_command(raised) ==
    /\ lpc = "command"
    /\ run' = [run EXCEPT !.built = <<run.final_version_id>>]
    /\ IF raised = "None"
       THEN /\ lpc' = "launch"
            /\ UNCHANGED <<emitted, controls_disabled>>
       ELSE /\ emitted' = emitted \o
                   <<Emit("error", IF raised = "VersionNotFound"
                                   THEN "Version not found"
                                   ELSE "Error building launch command"),
                     Emit("state", "False")>>
            /\ controls_disabled' = FALSE
            /\ lpc' = "idle"
    /\ UNCHANGED <<config_file, window, config>>
    /\ UNCHANGED <<managerVars, httpVars, oauthVars, timerVars>>

\* run, step 6: call(command), which returns when the game ends or raises
run_launch(ok) ==
    /\ lpc = "launch"
    /\ emitted' = emitted \o
          (IF ok THEN <<>> ELSE <<Emit("error", "Error launching Minecraft")>>)
          \o <<Emit("state", "False")>>
    /\ controls_disabled' = FALSE
    /\ lpc' = "idle"
    /\ UNCHANGED <<config_file, window, config, run>>
    /\ UNCHANGED <<managerVars, httpVars, oauthVars, timerVars>>

\* the launcher is closed, or ends with its thread
window_close ==
    /\ window = "open"
    /\ lpc \in {"idle", "died"}
    /\ window' = "closed"
    /\ config' = NoDict
    /\ controls_disabled' = FALSE
    /\ lpc' = "idle"
    /\ run' = NoRun
    /\ emitted' = <<>>
    /\ UNCHANGED config_file
    /\ UNCHANGED <<managerVars, httpVars, oauthVars, timerVars>>

InitLauncher ==
    /\ window = "closed"
    /\ config = NoDict
    /\ controls_disabled = FALSE
    /\ lpc = "idle"
    /\ run = NoRun
    /\ emitted = <<>>

(***************************************************************************)
(* The OAuth login app (src/ely_auth.py)                                   *)
(*                                                                         *)
(* A request argument and a session value are <<>> when absent (None) and  *)
(* <<text>> when present.                                                  *)
(***************************************************************************)
\* the browser sessions (cookies) that reach the app
OauthSessions == {"browser", "other"}

\* the values secrets.token_urlsafe(16) gives
StateTokens == {"tokA", "tokB"}

\* request.args.get('state'): absent, a token, or any other text
StateArgs == {<<>>, <<"forged">>} \cup {<<t>> : t \in StateTokens}

\* request.args.get('code'): absent, empty, or an authorization code
CodeArgs == {<<>>, <<"">>, <<"code1">>}

\* the status of the token endpoint's and of the profile endpoint's answer
EndpointStatuses == {200, 401}

OauthCall(op, session_id, state, code, stored, status, body, posts, gets) ==
    [op |-> op, session |-> session_id, state |-> state, code |-> code,
     stored |-> stored, status |-> status, body |-> body,
     token_requests |-> posts, profile_requests |-> gets]

\* GET /: a new state is stored in the session and sent to the login page
index(session_id, oauth_state_new) ==
    /\ oauth_state' = [oauth_state EXCEPT ![session_id] = <<oauth_state_new>>]
    /\ oauth_call' = OauthCall("index", session_id, <<>>, <<>>,
                               <<oauth_state_new>>, 200,
                               "Opening browser for Ely.by login...", 0, 0)
    /\ UNCHANGED <<managerVars, httpVars, launcherVars, timerVars>>

\* GET /callback with the arguments state and code, the token endpoint and
\* the profile endpoint answering with token_status and user_status
callback(session_id, state, code, token_status, user_status) ==
    /\ LET stored == oauth_state[session_id]
       IN  oauth_call' =
             IF state # stored
             THEN OauthCall("callback", session_id, state, code, stored, 400,
                            "State mismatch!", 0, 0)
             ELSE IF code = <<>> \/ code = <<"">>
             THEN OauthCall("callback", session_id, state, code, stored, 400,
                            "Missing authorization code!", 0, 0)
             ELSE IF token_status # 200
             THEN OauthCall("callback", session_id, state, code, stored, 400,
                            "Token request failed", 1, 0)
             ELSE IF user_status # 200
             THEN OauthCall("callback", session_id, state, code, stored, 400,
                            "User info fetch failed", 1, 1)
             ELSE OauthCall("callback", session_id, state, code, stored, 200,
                            "Logged in", 1, 1)
    /\ UNCHANGED oauth_state
    /\ UNCHANGED <<managerVars, httpVars, launcherVars, timerVars>>

\* the app is started again: a new secret_key, so no earlier session is read
app_restart ==
    /\ oauth_state' = [c \in OauthSessions |-> <<>>]
    /\ oauth_call' = OauthCall("restart", "", <<>>, <<>>, <<>>, 0, "", 0, 0)
    /\ UNCHANGED <<managerVars, httpVars, launcherVars, timerVars>>

InitOauth ==
    /\ oauth_state = [c \in OauthSessions |-> <<>>]
    /\ oauth_call = OauthCall("start", "", <<>>, <<>>, <<>>, 0, "", 0, 0)

(***************************************************************************)
(* TimerApp (src/test.py)                                                  *)
(***************************************************************************)
\* the body of update_timer, run with self.running true: the time and the
\* label move on and root.after(1000, self.update_timer) adds a callback
update_timer_running ==
    /\ time < MaxTime
    /\ time' = time + 1
    /\ label' = ToString(time')

\* the Start button
start_timer ==
    /\ IF ~running
       THEN /\ running' = TRUE
            /\ update_timer_running
            /\ pending < MaxPending
            /\ pending' = pending + 1
       ELSE UNCHANGED timerVars
    /\ UNCHANGED <<managerVars, httpVars, launcherVars, oauthVars>>

\* the Stop button: the callback root.after holds is not cancelled
stop_timer ==
    /\ running' = FALSE
    /\ UNCHANGED <<time, label, pending>>
    /\ UNCHANGED <<managerVars, httpVars, launcherVars, oauthVars>>

\* the Reset button
reset_timer ==
    /\ running' = FALSE
    /\ time' = 0
    /\ label' = "0"
    /\ UNCHANGED pending
    /\ UNCHANGED <<managerVars, httpVars, launcherVars, oauthVars>>

\* a callback held by root.after comes due and update_timer runs
update_timer ==
    /\ pending > 0
    /\ IF running
       THEN /\ update_timer_running
            /\ UNCHANGED pending
       ELSE /\ pending' = pending - 1
            /\ UNCHANGED <<time, label>>
    /\ UNCHANGED running
    /\ UNCHANGED <<managerVars, httpVars, launcherVars, oauthVars>>

\* TimerApp(root)
InitTimer ==
    /\ time = 0
    /\ running = FALSE
    /\ label = "0"
    /\ pending = 0

\* a file that is no zip archive: backup_profile never writes it
NotAZip == <<"notes", ".", "zip">>

ZipPaths == {backup_out(n) : n \in Names} \cup {NotAZip}

InitManager ==
    /\ fs = EmptyDir
    /\ backups = [z \in {} |-> EmptyTree]
    /\ manager = "up"
    /\ profiles = EmptyStore
    /\ active_profile = <<>>
    /\ pc = "idle"
    /\ saving = <<>>
    /\ call = Call("__init__", NoName, "None")
    /\ scenario = NoScenario

InitHttp ==
    /\ _http = NoSession
    /\ sessions = 0
    /\ http_call = HttpCall("none", <<>>, NoResponse, "None", 0, <<>>, NoSession)
    /\ request = NoRequest

\* no launcher runs beside the manager
NoLauncher == InitLauncher /\ config_file = File("absent", NoDict, <<>>)

\* neither the OAuth app nor the TimerApp has been used
NoOtherApp == InitOauth /\ InitTimer

Init ==
    /\ InitManager
    /\ inputs = RepProfiles
    /\ InitHttp
    /\ queries = {}
    /\ NoLauncher
    /\ NoOtherApp

\* runs in which one profile, any of the bounded universe, is the one saved
InitRT ==
    /\ InitManager
    /\ inputs \in {{p} : p \in AllProfiles}
    /\ InitHttp
    /\ queries = {}
    /\ NoLauncher
    /\ NoOtherApp

\* runs of the HTTP side of a manager whose profiles directory is empty, in
\* which one text, any of the bounded universe, is the one searched for
InitHttpOnly ==
    /\ InitManager
    /\ inputs = {}
    /\ InitHttp
    /\ queries \in {{q} : q \in Queries}
    /\ NoLauncher
    /\ NoOtherApp

\* runs of the launcher, started over any of the configuration files
InitLaunch ==
    /\ InitManager
    /\ inputs = {}
    /\ InitHttp
    /\ queries = {}
    /\ InitLauncher
    /\ config_file \in ConfigFiles
    /\ NoOtherApp

\* runs of the OAuth app and of the TimerApp, nothing else being used
InitApps ==
    /\ InitManager
    /\ inputs = {}
    /\ InitHttp
    /\ queries = {}
    /\ NoLauncher
    /\ InitOauth
    /\ InitTimer

Next ==
    \/ __init__
    \/ \E prof \in inputs : save_profile_mkdir(prof)
    \/ save_profile_open
    \/ save_profile_write
    \/ \E n \in Names : backup_profile(n)
    \/ \E z \in ZipPaths : restore_profile(z)
    \/ \E n \in Names : delete_profile_dir(n)
    \/ process_stop

Spec == Init /\ [][Next]_vars

SpecRT == InitRT /\ [][Next]_vars

\* the manager beside a user who also copies archive files
NextCopies ==
    \/ Next
    \/ \E src \in ZipPaths, dst \in {backup_out(n) : n \in Names} :
          copy_archive(src, dst)

SpecCopies == Init /\ [][NextCopies]_vars

NextHttp ==
    \/ __init__
    \/ process_stop
    \/ init_http
    \/ http
    \/ \E query \in queries, response \in Responses : browse_mods(query, response)
    \/ session_close

SpecHttp == InitHttpOnly /\ [][NextHttp]_vars

NextLaunch ==
    \/ MainWindow_init
    \/ \E version_id \in Versions, server_text \in Servers :
          play_game(version_id, server_text)
    \/ run_begin
    \/ \E ok \in BOOLEAN : run_install(ok)
    \/ \E ok \in BOOLEAN : run_mods(ok)
    \/ run_options
    \/ \E raised \in BuilderOutcomes : run_command(raised)
    \/ \E ok \in BOOLEAN : run_launch(ok)
    \/ window_close

SpecLaunch == InitLaunch /\ [][NextLaunch]_vars

NextOauth ==
    \/ \E c \in OauthSessions, t \in StateTokens : index(c, t)
    \/ \E c \in OauthSessions, state \in StateArgs, code \in CodeArgs,
          token_status \in EndpointStatuses, user_status \in EndpointStatuses :
          callback(c, state, code, token_status, user_status)
    \/ app_restart

SpecOauth == InitApps /\ [][NextOauth]_vars

NextTimer ==
    \/ start_timer
    \/ stop_timer
    \/ reset_timer
    \/ update_timer

SpecTimer == InitApps /\ [][NextTimer]_vars

(***************************************************************************)
(* Properties                                                              *)
(***************************************************************************)
HasDocument(d) == d \in DOMAIN fs /\ PROFILE_JSON \in DOMAIN fs[d]

Document(d) == fs[d][PROFILE_JSON]

\* the spec's error kinds, as the exceptions the code raises for them
CorruptData == {"JSONDecodeError", "KeyError", "TypeError"}

NotFound == {"FileNotFoundError"}

\* a document that is not valid JSON, or whose load_order is not a
\* permutation of the keys of its mods
CorruptDocument(text) ==
    \/ ~json_valid(text)
    \/ ~IsPermutation(json_loads(text).load_order, DOMAIN json_loads(text).mods)

\* the state a startup load has just left: nothing has run since
JustLoaded == call.op = "__init__" /\ pc = "idle"

\* C1: for every profile whose load_order is a permutation of the keys of
\* its mods, once _save_profile has written its document, a manager start
\* (_load_profiles) completes and leaves, under the profile's name, a store
\* entry equal to the saved profile in every field.
C1_SaveLoadRoundTrip ==
    \A p \in inputs :
        (/\ IsPermutation(p.load_order, DOMAIN p.mods)
         /\ call.op = "__init__"
         /\ HasDocument(p.name)
         /\ Document(p.name) = json_dumps(ProfileToData(p)))
        => /\ manager = "up"
           /\ p.name \in DOMAIN profiles
           /\ profiles[p.name] = p

C1_Witness ==
    \E p \in inputs :
        /\ IsPermutation(p.load_order, DOMAIN p.mods)
        /\ p.load_order = <<"sodium", "lithium">>
        /\ p.name = <<"my", ".", "pack">>
        /\ JustLoaded
        /\ HasDocument(p.name)
        /\ Document(p.name) = json_dumps(ProfileToData(p))
        /\ p.name \in DOMAIN profiles
        /\ profiles[p.name] = p

\* C2: a startup load of a corrupt document (not valid JSON, or a load_order
\* that is not a permutation of the keys of mods) fails with CorruptData, and
\* the document does not become a profile of the store.
C2_CorruptDocumentRejected ==
    JustLoaded =>
        \A d \in DOMAIN fs :
            (HasDocument(d) /\ CorruptDocument(Document(d))) =>
                /\ call.raised \in CorruptData
                /\ ~(/\ json_valid(Document(d))
                     /\ \E n \in DOMAIN profiles :
                           profiles[n] = GameProfileFromData(json_loads(Document(d))))

\* C3: a startup load completes whatever documents are corrupt, and the store
\* then holds every profile whose document is valid.
C3_CorruptDocumentIsolated ==
    JustLoaded =>
        /\ manager = "up"
        /\ call.raised = "None"
        /\ \A d \in DOMAIN fs :
              (HasDocument(d) /\ ~CorruptDocument(Document(d))) =>
                  LET gp == GameProfileFromData(json_loads(Document(d)))
                  IN  gp.name \in DOMAIN profiles /\ profiles[gp.name] = gp

\* C4: when the process has stopped, at whatever point of _save_profile, every
\* profile document the next start will read is a complete document, never a
\* partly written one.
C4_StoppedSaveLeavesCompleteDocument ==
    manager = "down" =>
        \A d \in DOMAIN fs : HasDocument(d) => json_valid(Document(d))

\* C8: backup_profile of a name whose profile directory does not exist fails
\* with NotFound and leaves the backups directory as it was.
C8_BackupOfMissingDirectory ==
    [][\A n \in Names :
          (n \notin DOMAIN fs /\ backup_profile(n)) =>
              /\ call'.op = "backup_profile"
              /\ call'.raised \in NotFound
              /\ backups' = backups]_vars

C8_Witness ==
    /\ call.op = "backup_profile"
    /\ call.raised \in NotFound
    /\ call.arg \notin DOMAIN fs
    /\ backup_out(call.arg) \notin DOMAIN backups
    /\ DOMAIN backups # {}

\* C9: backup_profile(name) of an existing profile directory copies: the
\* profiles directory and the store are unchanged, and the archive of the
\* directory is at backups/<name>.zip, whatever dots the name has; no other
\* archive changes.
C9_BackupCopies ==
    [][\A n \in Names :
          (n \in DOMAIN fs /\ backup_profile(n)) =>
              /\ call'.raised = "None"
              /\ fs' = fs
              /\ profiles' = profiles
              /\ active_profile' = active_profile
              /\ DOMAIN backups' = DOMAIN backups \cup {n \o ZipSuffix}
              /\ backups'[n \o ZipSuffix] = fs[n]
              /\ \A z \in DOMAIN backups \ {n \o ZipSuffix} :
                    backups'[z] = backups[z]]_vars

C9_Witness ==
    /\ call = Call("backup_profile", <<"my", ".", "pack">>, "None")
    /\ pc = "idle"
    /\ <<"my", ".", "pack", ".", "zip">> \in DOMAIN backups
    /\ HasDocument(<<"my", ".", "pack">>)
    /\ backups[<<"my", ".", "pack", ".", "zip">>] = fs[<<"my", ".", "pack">>]
    /\ <<"my", ".", "pack">> \in DOMAIN profiles

\* C10: after backup_profile(name) of a saved profile, the removal of its
\* directory and restore_profile of backups/<name>.zip, the directory
\* profiles/<name> exists again and its profile.json is the document the
\* directory held when it was backed up.
C10_BackupDeleteRestore ==
    (scenario.stage = 3 /\ PROFILE_JSON \in DOMAIN scenario.tree) =>
        /\ HasDocument(scenario.name)
        /\ Document(scenario.name) = scenario.tree[PROFILE_JSON]

C10_Witness ==
    /\ scenario.stage = 3
    /\ scenario.name = <<"my", ".", "pack">>
    /\ PROFILE_JSON \in DOMAIN scenario.tree
    /\ json_valid(scenario.tree[PROFILE_JSON])
    /\ HasDocument(scenario.name)
    /\ call.op = "restore_profile"

\* C11: restore_profile never changes the live store: self.profiles and
\* self.active_profile are the same after a restore as before it, also when
\* the restore replaces the document of a profile that is loaded.
C11_RestoreLeavesStore ==
    [][\A z \in ZipPaths :
          restore_profile(z) =>
              /\ profiles' = profiles
              /\ active_profile' = active_profile
              /\ manager' = manager]_vars

C11_Witness ==
    /\ call.op = "restore_profile"
    /\ call.raised = "None"
    /\ restore_dir(call.arg) \in DOMAIN profiles
    /\ HasDocument(restore_dir(call.arg))
    /\ json_valid(Document(restore_dir(call.arg)))
    /\ GameProfileFromData(json_loads(Document(restore_dir(call.arg))))
           # profiles[restore_dir(call.arg)]
    /\ Document(restore_dir(call.arg)) = backups[call.arg][PROFILE_JSON]

\* the spec's InvalidArchive, as the exception shutil raises for it
InvalidArchive == {"ReadError"}

\* an archive file that is no zip, or that holds no profile document
InvalidArchiveFile(z) ==
    \/ z \notin DOMAIN backups
    \/ PROFILE_JSON \notin DOMAIN backups[z]

\* C12: restore_profile of an archive that is not a valid zip, or that holds
\* no profile document, fails with InvalidArchive and creates or modifies no
\* directory under profiles/.
C12_InvalidArchiveRejected ==
    [][\A z \in ZipPaths :
          (InvalidArchiveFile(z) /\ restore_profile(z)) =>
              /\ call'.raised \in InvalidArchive
              /\ fs' = fs]_vars

\* C13: a successful restore_profile over an existing directory
\* profiles/<archive base name> leaves that directory with the contents of
\* the archive, whatever it held before.
C13_RestoreReplacesDirectory ==
    [][\A z \in ZipPaths :
          (/\ restore_dir(z) \in DOMAIN fs
           /\ restore_profile(z)
           /\ call'.raised = "None") =>
              /\ restore_dir(z) \in DOMAIN fs'
              /\ fs'[restore_dir(z)] = backups[z]]_vars

\* the directories of profiles/ that hold a profile.json
WithDocument == {d \in DOMAIN fs : HasDocument(d)}

\* C16: at startup a directory under profiles/ without a profile.json is
\* skipped: the load ends as it ends over the directories that have one (no
\* error of its own, the other profiles loaded the same), and every store
\* entry is the profile of some directory's document.
C16_FolderWithoutDocumentSkipped ==
    [][__init__ =>
          /\ \E order \in Perms(WithDocument) :
                LET r == load_folders([d \in WithDocument |-> fs[d]], order,
                                      EmptyStore)
                IN  /\ call'.raised = r.raised
                    /\ profiles' = IF r.raised = "None" THEN r.profiles
                                   ELSE EmptyStore
          /\ call'.raised \notin NotFound
          /\ \A n \in DOMAIN profiles' :
                \E d \in WithDocument :
                    /\ json_valid(Document(d))
                    /\ profiles'[n] = GameProfileFromData(json_loads(Document(d)))]_vars

C16_Witness ==
    /\ JustLoaded
    /\ manager = "up"
    /\ call.raised = "None"
    /\ \E d \in DOMAIN fs : ~HasDocument(d)
    /\ \E e \in DOMAIN fs : HasDocument(e) /\ e \in DOMAIN profiles

\* the spec's RemoteError and NetworkError, as the exceptions aiohttp raises
RemoteError == {"ClientResponseError"}

NetworkError == {"ClientConnectionError"}

\* C14: a browse_mods whose response has a non-success status (503, 404)
\* fails with RemoteError carrying that status and returns no result; a
\* response with a success status returns the parsed body.
C14_StatusDecidesOutcome ==
    (http_call.op = "browse_mods" /\ http_call.response.kind = "response") =>
        /\ http_call.response.status >= 400 =>
              /\ http_call.raised \in RemoteError
              /\ http_call.status = http_call.response.status
              /\ http_call.result = <<>>
        /\ (http_call.response.status < 400
            /\ json_valid(http_call.response.body)) =>
              /\ http_call.raised = "None"
              /\ http_call.result = <<json_loads(http_call.response.body)>>

C14_Witness ==
    /\ http_call.op = "browse_mods"
    /\ http_call.response.kind = "response"
    /\ http_call.response.status = 503
    /\ http_call.raised \in RemoteError
    /\ http_call.status = 503
    /\ http_call.result = <<>>

\* C15: for every query text, with "&", "=", "#" or spaces in it too, the
\* request sent by browse_mods carries exactly the parameter query, whose
\* decoded value is the caller's text, and the parameter limit with value 10.
C15_QueryIsOneParameter ==
    (http_call.op = "browse_mods" /\ http_call.response.kind = "response") =>
        request.params = << [name |-> <<"query">>, value |-> http_call.query],
                            [name |-> <<"limit">>, value |-> <<"10">>] >>

\* C18: reading the http property raises RuntimeError when the manager has
\* no session; browse_mods never ends in that error and never sends on a
\* closed session; init_http makes a session when there is none or the one
\* there is closed, and leaves an open one in place.
C18_SessionLifecycle ==
    [][/\ http =>
             http_call'.raised = IF _http.id = 0 THEN "RuntimeError" ELSE "None"
       /\ init_http =>
             IF _http.id = 0 \/ _http.closed
             THEN _http'.id > sessions /\ ~_http'.closed
             ELSE _http' = _http /\ sessions' = sessions
       /\ \A query \in queries, response \in Responses :
             browse_mods(query, response) =>
                 /\ http_call'.raised # "RuntimeError"
                 /\ http_call'.used.id # 0
                 /\ ~http_call'.used.closed
                 /\ http_call'.used = _http'
                 /\ (_http.id # 0 /\ ~_http.closed) => _http' = _http]_vars

C18_Witness ==
    /\ http_call.op = "browse_mods"
    /\ http_call.raised = "None"
    /\ http_call.used.id = 2
    /\ _http = http_call.used
    /\ ~_http.closed
    /\ sessions = 2

\* C17: load_config always returns a config with every default key; when the
\* file holds a JSON object its values override the defaults key by key; when
\* the file is absent, unreadable or no JSON object the result is the
\* defaults alone; load_config never raises.
C17_LoadConfigDefaults ==
    [][MainWindow_init =>
          /\ load_config(config_file).raised = "None"
          /\ DOMAIN default_config \subseteq DOMAIN config'
          /\ config_file.kind = "object" =>
                \A k \in DOMAIN default_config :
                    config'[k] = IF k \in DOMAIN config_file.obj
                                 THEN config_file.obj[k]
                                 ELSE default_config[k]
          /\ config_file.kind # "object" => config' = default_config]_vars

\* run has ended: by a return, or by an exception that left it
RunEnded == emitted # <<>> /\ lpc \in {"idle", "died"}

StateEmissions == SelectSeq(emitted, LAMBDA e : e.signal = "state")

\* C19: every execution of run emits state_signal(True) exactly once, as its
\* first emission, and state_signal(False) exactly once, as its last, however
\* it ends; the buttons on_state_change(True) disabled are enabled again.
C19_StateSignalBrackets ==
    RunEnded =>
        /\ emitted[1] = Emit("state", "True")
        /\ emitted[Len(emitted)] = Emit("state", "False")
        /\ StateEmissions = <<Emit("state", "True"), Emit("state", "False")>>
        /\ ~controls_disabled

\* C20: the version given to get_minecraft_command is the id the loader
\* installation resulted in when the loader is Fabric or Forge, and the
\* selected version when it is None; after a failed installation the command
\* builder is not called.
C20_BuilderGetsInstalledVersion ==
    /\ run.install_failed => run.built = <<>>
    /\ run.built # <<>> =>
          run.built = IF config.mod_loader \in {Fabric, Forge}
                      THEN run.installed
                      ELSE <<run.version_id>>

\* the directories whose profile.json _load_profiles can load
Loadable == {d \in WithDocument : json_valid(Document(d))}

\* C21: after a startup that completed, every directory under profiles/ with
\* a loadable document has its own store entry under the name its document
\* carries: the entry is that document's profile, and there are as many
\* entries as such directories (none dropped, none replaced by another).
C21_EveryDocumentHasItsEntry ==
    (JustLoaded /\ manager = "up") =>
        /\ \A d \in Loadable :
              LET gp == GameProfileFromData(json_loads(Document(d)))
              IN  gp.name \in DOMAIN profiles /\ profiles[gp.name] = gp
        /\ Cardinality(DOMAIN profiles) = Cardinality(Loadable)

\* C22: /callback asks the token endpoint only for a request whose state
\* argument equals a state that index stored earlier in the same session; a
\* request without a state argument, or in a session index never stored a
\* state in, is answered 400 "State mismatch!" and sends nothing to the token
\* or the profile endpoint.
C22_CallbackChecksState ==
    oauth_call.op = "callback" =>
        /\ oauth_call.token_requests > 0 =>
              /\ oauth_call.stored # <<>>
              /\ oauth_call.state = oauth_call.stored
        /\ (oauth_call.state = <<>> \/ oauth_call.stored = <<>>) =>
              /\ oauth_call.status = 400
              /\ oauth_call.body = "State mismatch!"
              /\ oauth_call.token_requests = 0
              /\ oauth_call.profile_requests = 0

\* C23: whatever the Start, Stop and Reset clicks and the callbacks coming
\* due, root.after never holds more than one update_timer callback; Start
\* while the timer runs changes nothing; and a callback that comes due while
\* the timer does not run leaves the time as it is.
C23_OnePendingCallback ==
    [][/\ pending' <= 1
       /\ (running /\ start_timer) => UNCHANGED timerVars
       /\ (~running /\ update_timer) => time' = time]_vars
====
